---------------------------- MODULE Spec2Model ----------------------------
(***************************************************************************)
(* A model of timelogbot.py: the page/project matching, the report         *)
(* renderer (Confluence.update_report_page), the checkpoint evaluation     *)
(* (EMailer.update), the state store (Database) and the page loop of       *)
(* main().                                                                 *)
(*                                                                         *)
(* Representation.                                                         *)
(*  - Hours and budgets are Python floats; they are modelled as integers   *)
(*    counting thousandths of an hour (Milli), so that the two-decimal     *)
(*    and zero-decimal formatting of the report and the 0.01 tolerance of  *)
(*    the guard are real roundings and comparisons.                        *)
(*  - A date is the number of days since 2024-01-01; the month of a date   *)
(*    is computed with the calendar of 2024 and 2025.  datetime.today()    *)
(*    enters the code only through comparisons with midnights, so a run    *)
(*    is modelled by its day.  The store's CURRENT_TIMESTAMP is taken on   *)
(*    the same clock as datetime.today().                                  *)
(*  - A name (space name, project id, subject) is a sequence of tokens;    *)
(*    "NBIS " is one token, every other token is one character.            *)
(*  - A page body is a sequence of token records; the marker "<hr />" is   *)
(*    the token [t |-> "hr"] and "X out of Y hours used" the token         *)
(*    [t |-> "used", x |-> X, y |-> Y].                                    *)
(*    X or Y is NotAFloat when the matched text is no float.  Inputs stay  *)
(*    away from ties of the roundings and of the tolerance, whose outcome  *)
(*    depends on the binary representation of the floats.                  *)
(***************************************************************************)
EXTENDS Integers, Sequences, FiniteSets, TLC

\* One hour, in the model's unit (thousandths of an hour).
Milli == 1000

\* Absent value: the None of the code, where a record may stand.
None == [t |-> "None"]

\* The None of the code where a name may stand; no name of the model is empty.
NoName == <<>>

----------------------------------------------------------------------------
(* Program constants *)

\* CHECKPOINT_HOURS = (100, 300)
CHECKPOINT_HOURS == <<100 * Milli, 300 * Milli>>

\* CHECKPOINT_DAYS = 365
CHECKPOINT_DAYS == 365

\* The tolerance of the guard: abs(...) < 0.01
Tolerance == 10

----------------------------------------------------------------------------
(* Names *)

NBIS == "NBIS "

\* normalize_project_id's MAP, on the characters the model uses.
NormChar(c) ==
  CASE c = "Ö" -> "O"
    [] c = "ö" -> "o"
    [] c = "ä" -> "a"
    [] c = "å" -> "a"
    [] c = "Ä" -> "A"
    [] c = "Å" -> "A"
    [] OTHER -> c

\* project_id.translate(MAP)
normalize_project_id(name) == [k \in 1..Len(name) |-> NormChar(name[k])]

IsNotNBIS(c) == c # NBIS

\* str.replace("NBIS ", ""): every occurrence is removed, wherever it stands.
ReplaceNBIS(name) == SelectSeq(name, IsNotNBIS)

----------------------------------------------------------------------------
(* Arithmetic of the report *)

Abs(x) == IF x < 0 THEN -x ELSE x

\* x rounded to a multiple of q, ties to even: what "{:.2f}" (q = 10) and
\* "{:.0f}" (q = Milli) print of x, read back by float().
RoundTo(x, q) ==
  LET lo == (x \div q) * q
      r  == x - lo
  IN  IF 2 * r < q THEN lo
      ELSE IF 2 * r > q THEN lo + q
      ELSE IF (lo \div q) % 2 = 0 THEN lo ELSE lo + q

\* "{hours:.2f}"
FormatHours(h) == RoundTo(h, 10)

\* "{budget:.0f}"
FormatBudget(b) == RoundTo(b, Milli)

RECURSIVE SumHours(_)
SumHours(units) ==
  IF units = <<>> THEN 0 ELSE units[1].hours + SumHours(Tail(units))

\* work_hours(units)
work_hours(units) == SumHours(units)

----------------------------------------------------------------------------
(* Calendar *)

MonthLengths(year) ==
  IF year = 2024 THEN <<31, 29, 31, 30, 31, 30, 31, 31, 30, 31, 30, 31>>
                 ELSE <<31, 28, 31, 30, 31, 30, 31, 31, 30, 31, 30, 31>>

RECURSIVE MonthIn(_, _, _)
MonthIn(lens, d, m) ==
  IF d < lens[m] \/ m = 12 THEN m ELSE MonthIn(lens, d - lens[m], m + 1)

\* (wu['date'].year, wu['date'].month)
YearMonth(d) ==
  IF d < 366 THEN <<2024, MonthIn(MonthLengths(2024), d, 1)>>
             ELSE <<2025, MonthIn(MonthLengths(2025), d - 366, 1)>>

----------------------------------------------------------------------------
(* The month table *)

\* Insert u into a list sorted by date, latest first, behind the units of its
\* own date: Python's sort is stable, also with reverse=True.
RECURSIVE InsertDesc(_, _)
InsertDesc(u, sorted) ==
  IF sorted = <<>> THEN <<u>>
  ELSE IF u.date > sorted[1].date THEN <<u>> \o sorted
  ELSE <<sorted[1]>> \o InsertDesc(u, Tail(sorted))

RECURSIVE SortDesc(_, _)
SortDesc(units, acc) ==
  IF units = <<>> THEN acc
  ELSE SortDesc(Tail(units), InsertDesc(units[1], acc))

\* The work units are grouped as the tracker returned them.
Unsorted(units) == units

\* sorted(work_units, key=lambda wu: wu['date'], reverse=True)
SortedByDateDesc(units) == SortDesc(units, <<>>)

\* itertools.groupby: one group per run of adjacent units with the same key;
\* each row carries the month and the sum of its group, printed "{:.2f}".
RECURSIVE GroupRows(_, _)
GroupRows(units, rows) ==
  IF units = <<>> THEN rows
  ELSE LET ym == YearMonth(units[1].date)
           n  == Len(rows)
       IN  IF n > 0 /\ rows[n].ym = ym
           THEN GroupRows(Tail(units),
                          [rows EXCEPT ![n].sum = rows[n].sum + units[1].hours])
           ELSE GroupRows(Tail(units),
                          Append(rows, [ym |-> ym, sum |-> units[1].hours]))

MonthRows(units) ==
  LET rows == GroupRows(SortedByDateDesc(units), <<>>)
  IN  [k \in 1..Len(rows) |->
         [ym |-> rows[k].ym, hours |-> FormatHours(rows[k].sum)]]

----------------------------------------------------------------------------
(* The report renderer *)

marker == [t |-> "hr"]

RECURSIVE FindFrom(_, _, _)
FindFrom(text, kind, k) ==
  IF k > Len(text) THEN 0
  ELSE IF text[k].t = kind THEN k
  ELSE FindFrom(text, kind, k + 1)

\* text.find(marker), 1-based; 0 when the marker is absent.
FindMarker(text) == FindFrom(text, "hr", 1)

\* re.search("([0-9.]+) out of ([0-9.]+) hours used", text[index:]):
\* the position of the first match at or after index, 0 for no match.
SearchUsed(text, index) == FindFrom(text, "used", index)

\* What stands for a matched group that float() rejects, such as "." or
\* "1.2.3": the pattern matches no sign, a number it matched is never negative.
NotAFloat == 0 - 1

\* Lines 128-129: float(m.group(1)) or float(m.group(2)) raises ValueError.
GuardRaises(text, force) ==
  LET index == FindMarker(text)
      m     == IF index > 0 THEN SearchUsed(text, index) ELSE 0
  IN  /\ index > 0
      /\ ~force
      /\ m > 0
      /\ (text[m].x = NotAFloat \/ text[m].y = NotAFloat)

\* The guard of lines 123-135: the report is kept as it is.
GuardKeeps(text, hours_spent, budget, force) ==
  LET index == FindMarker(text)
      m     == IF index > 0 THEN SearchUsed(text, index) ELSE 0
  IN  /\ index > 0
      /\ ~force
      /\ m > 0
      /\ ~GuardRaises(text, force)
      /\ Abs(hours_spent - text[m].x) < Tolerance
      /\ Abs(text[m].y - budget) < Tolerance

\* percent = hours_spent / budget if budget > 0 else 0.0, printed "{:.1%}":
\* the number of tenths of a percent.
Percent(hours_spent, budget) ==
  IF budget > 0 THEN (2 * Milli * hours_spent + budget) \div (2 * budget)
  ELSE 0

\* The report of lines 145-170.
Report(space_name, units, budget) ==
  << [t |-> "nl"],
     marker,
     [t |-> "h2", name |-> space_name,
      percent |-> Percent(work_hours(units), budget)],
     [t |-> "used", x |-> FormatHours(work_hours(units)),
      y |-> FormatBudget(budget)],
     [t |-> "table", rows |-> MonthRows(units)] >>

\* The body that update_report_page builds: the text before the marker, a
\* line break and the report.
NewBody(text, space_name, units, budget) ==
  LET index == FindMarker(text)
      head  == IF index > 0 THEN SubSeq(text, 1, index - 1) ELSE text
  IN  head \o <<[t |-> "nl"]>> \o Report(space_name, units, budget)

\* update_report_page without the transport: whether the report is
\* regenerated, the body of the page afterwards, and whether the call raised
\* instead of returning.
render(text, space_name, units, budget, force) ==
  IF GuardRaises(text, force)
  THEN [changed |-> FALSE, body |-> text, raised |-> TRUE]
  ELSE IF GuardKeeps(text, work_hours(units), budget, force)
  THEN [changed |-> FALSE, body |-> text, raised |-> FALSE]
  ELSE [changed |-> TRUE, body |-> NewBody(text, space_name, units, budget),
        raised |-> FALSE]

----------------------------------------------------------------------------
(* The state store: class Database *)

\* The projects table is a set of rows [name, hours, date].

\* Database.__getitem__: fetchone() of the rows of the name, None for the
\* KeyError.
GetItem(store, name) ==
  LET rows == {row \in store : row.name = name}
  IN  IF rows = {} THEN None
      ELSE LET row == CHOOSE row \in rows : TRUE
           IN  [hours |-> row.hours, date |-> row.date]

\* The row is written only when the hours differ from the stored ones.
SetItemIfChanged(store, name, hours, now) ==
  IF \E row \in store : row.name = name /\ row.hours = hours
  THEN store
  ELSE {row \in store : row.name # name}
       \cup {[name |-> name, hours |-> hours, date |-> now]}

\* Database.__setitem__: INSERT OR REPLACE of (name, hours) under the primary
\* key name; the date column takes its default, the current timestamp.
SetItem(store, name, hours, now) ==
  {row \in store : row.name # name}
  \cup {[name |-> name, hours |-> hours, date |-> now]}

----------------------------------------------------------------------------
(* The checkpoint evaluation of EMailer.update *)

HourNotification(checkpoint) == [kind |-> "hours", checkpoint |-> checkpoint]

DayNotification == [kind |-> "days", checkpoint |-> CHECKPOINT_DAYS]

\* The loop without its break: every crossed checkpoint gets an e-mail.
RECURSIVE HourLoopNoBreak(_, _, _)
HourLoopNoBreak(previous_hours, hours, k) ==
  IF k > Len(CHECKPOINT_HOURS) THEN <<>>
  ELSE IF previous_hours < CHECKPOINT_HOURS[k] /\ hours >= CHECKPOINT_HOURS[k]
       THEN <<HourNotification(CHECKPOINT_HOURS[k])>>
            \o HourLoopNoBreak(previous_hours, hours, k + 1)
       ELSE HourLoopNoBreak(previous_hours, hours, k + 1)

\* The loop of lines 254-265 from the k-th checkpoint on: the e-mails it
\* hands to send_email.  It breaks at the first checkpoint with
\* previous_hours < checkpoint and hours >= checkpoint.
RECURSIVE HourLoop(_, _, _)
HourLoop(previous_hours, hours, k) ==
  IF k > Len(CHECKPOINT_HOURS) THEN <<>>
  ELSE IF previous_hours < CHECKPOINT_HOURS[k] /\ hours >= CHECKPOINT_HOURS[k]
       THEN <<HourNotification(CHECKPOINT_HOURS[k])>>
       ELSE HourLoop(previous_hours, hours, k + 1)

\* Lines 253-265: the hour checkpoints that are notified.
HourCheckpoints(prev, hours) ==
  IF prev = None THEN <<>> ELSE HourLoop(prev.hours, hours, 1)

\* The day checkpoint must lie before today.
DayCrossedStrict(previous_date, project_start_date, now) ==
  /\ previous_date < project_start_date + CHECKPOINT_DAYS
  /\ now > project_start_date + CHECKPOINT_DAYS

\* Lines 267-268: the day checkpoint lies after the previous update and not
\* after today.
DayCrossed(previous_date, project_start_date, now) ==
  /\ previous_date < project_start_date + CHECKPOINT_DAYS
  /\ now >= project_start_date + CHECKPOINT_DAYS

\* The day checkpoint is notified whether or not an hour checkpoint was.
DayCheckpointsAlso(prev, sent_email, project_start_date, now) ==
  IF prev # None /\ DayCrossed(prev.date, project_start_date, now)
  THEN <<DayNotification>>
  ELSE <<>>

\* Lines 266-277: the day checkpoint that is notified.
DayCheckpoints(prev, sent_email, project_start_date, now) ==
  IF prev # None /\ ~sent_email
     /\ DayCrossed(prev.date, project_start_date, now)
  THEN <<DayNotification>>
  ELSE <<>>

\* The e-mails that update hands to send_email, in order.
Evaluate(prev, hours, project_start_date, now) ==
  LET by_hours == HourCheckpoints(prev, hours)
  IN  by_hours \o DayCheckpoints(prev, by_hours # <<>>, project_start_date, now)

\* The e-mail is handed to the transport in a dry run too.
send_emailAlways(dry_run, smtp) ==
  IF smtp = "ok" THEN "sent" ELSE "failed"

\* send_email: printed in a dry run, else handed to the SMTP transport,
\* which delivers it or raises.
send_email(dry_run, smtp) ==
  IF dry_run THEN "printed"
  ELSE IF smtp = "ok" THEN "sent" ELSE "failed"

----------------------------------------------------------------------------
(* The world of a run: the tracker's issues and the wiki's TimeLog pages *)

\* Number of runs that a sequence of runs for one project is followed for.
MaxRuns == 3

\* The issues that redmine.issue.filter returns: the WABI ID custom field
\* (NoName when the issue has none), the subject, whether the subject matches
\* '.*_\d{4}$', and the 'Hours ordered' custom field (None when it is
\* missing or float() rejects it).
Issues ==
  << [wabi |-> <<"Ö">>, subject |-> <<"S", "1">>, subjectIsId |-> FALSE,
      ordered |-> [hours |-> 400 * Milli]],
     [wabi |-> <<"A", "B">>, subject |-> <<"S", "2">>, subjectIsId |-> FALSE,
      ordered |-> None],
     [wabi |-> NoName, subject |-> <<"S", "3">>, subjectIsId |-> FALSE,
      ordered |-> None] >>

\* confluence.find_pages(): the space names of the pages titled TimeLog.
ThreePages == << <<NBIS, "Ö">>, <<"A", NBIS, "B">>, <<"C">> >>

OnePage == << <<NBIS, "Ö">> >>

\* Four pages, two of them in spaces of the first issue's project.
FourPages == << <<"A", "B">>, <<NBIS, "Ö">>, <<"Ö">>, <<"C">> >>

\* The time entries that get logged on the first issue: 90 hours spent on
\* 2024-01-05 and 220 hours spent on 2024-01-06.
EntryUnits ==
  { [date |-> 4, hours |-> 90 * Milli], [date |-> 5, hours |-> 220 * Milli] }

\* The time entries of the second issue: 5 hours spent on 2024-01-05.
SecondIssueEntries == <<[date |-> 4, hours |-> 5 * Milli]>>

\* The days on which the bot runs: from 364 to 367 days after 2024-01-05.
FirstDay == 4 + CHECKPOINT_DAYS - 1
LastDay == 4 + CHECKPOINT_DAYS + 2

\* The options of a run: --dry-run, --force and --space.
RunOptions ==
  {[dry_run |-> d, force |-> f, space |-> NoName] : d \in BOOLEAN, f \in BOOLEAN}
  \cup {[dry_run |-> FALSE, force |-> FALSE, space |-> s] :
          s \in {<<NBIS, "Ö">>, <<NBIS, "O">>}}

\* What a request to the wiki can end in: a response with a success status,
\* a response with an error status, no response (requests' ConnectionError).
Outcomes == {"ok", "http_error", "conn_error"}

\* What the collaborators do in one pass of the loop: the outcome of the GET,
\* of the PUT and of the SMTP session.  A request that follows a failed one
\* is never made; its outcome is left at "ok".
Collaborators ==
  {o \in [get : Outcomes, put : Outcomes, smtp : {"ok", "fail"}] :
     /\ o.get # "ok" => o.put = "ok"
     /\ (o.get # "ok" \/ o.put = "conn_error") => o.smtp = "ok"}

VARIABLES
  pages,          \* the space names of the TimeLog pages, as find_pages lists them
  time_entries,   \* issue -> its time entries, in the order the tracker returns them
  wiki,           \* page -> [body, version]
  db,             \* the projects table: rows [name, hours, date]
  today,          \* the day of the clock
  pc,             \* "idle", "running" or "aborted" (an uncaught exception)
  args,           \* the options of the current run
  i,              \* the page the loop of main() is at
  runs,           \* number of runs still to start
  ev,             \* what the last pass of the loop did
  rend,           \* the renderer alone: its arguments and what its calls returned
  printed         \* issue -> the e-mails that the last evaluation of its project
                  \* printed in a dry run and the work units they were computed
                  \* from; None when that evaluation printed nothing

vars ==
  <<pages, time_entries, wiki, db, today, pc, args, i, runs, ev, rend, printed>>

NoEvent ==
  [step |-> "none", page |-> 0, project |-> 0, get |-> "none", put |-> "none",
   updated |-> FALSE, evaluated |-> FALSE, units |-> <<>>, hours |-> 0,
   prev |-> None, start |-> 0, notifs |-> <<>>, mail |-> "none",
   aborted |-> FALSE, before |-> None, dbBefore |-> {}, dbStart |-> {},
   printed |-> None]

NoArgs == [dry_run |-> FALSE, force |-> FALSE, space |-> NoName]

NoCall == [changed |-> FALSE, body |-> <<>>, raised |-> FALSE]

\* The renderer is not under study.
NoRender ==
  [stage |-> 0, text |-> <<>>, body |-> <<>>, units |-> <<>>, budget |-> 0,
   force |-> FALSE, first |-> NoCall, second |-> NoCall]

----------------------------------------------------------------------------
(* main(): the projects dictionary, lines 347-374 *)

\* Lines 354-371: the project id of an issue, NoName when it is ignored.
ProjectId(issue) ==
  IF issue.wabi # NoName THEN issue.wabi
  ELSE IF issue.subjectIsId THEN issue.subject
  ELSE NoName

\* The keys of projects.
ProjectKeys ==
  {normalize_project_id(ProjectId(Issues[p])) :
     p \in {q \in 1..Len(Issues) : ProjectId(Issues[q]) # NoName}}

\* projects[key]: a later issue replaces an earlier one of the same key.
ProjectOf(key) ==
  LET ps == {p \in 1..Len(Issues) :
               /\ ProjectId(Issues[p]) # NoName
               /\ normalize_project_id(ProjectId(Issues[p])) = key}
  IN  CHOOSE p \in ps : \A q \in ps : q <= p

\* Line 398: the page is left out by the --space option.
IgnoredBySpace(space_option, space_name) ==
  /\ space_option # NoName
  /\ space_option # space_name
  /\ space_option # normalize_project_id(space_name)

\* Line 402: the page has a project.
HasProject(space_name) ==
  LET space_name_norm == normalize_project_id(space_name)
  IN  \/ space_name_norm \in ProjectKeys
      \/ ReplaceNBIS(space_name_norm) \in ProjectKeys

\* Lines 403-406: the project of the page.
FindProject(space_name) ==
  LET space_name_norm == normalize_project_id(space_name)
  IN  IF space_name_norm \in ProjectKeys
      THEN ProjectOf(space_name_norm)
      ELSE ProjectOf(ReplaceNBIS(space_name_norm))

\* Lines 417-421: the budget of an issue.
Budget(issue) == IF issue.ordered = None THEN 0 ELSE issue.ordered.hours

\* Line 443: project_start_date=work_units[-1]['date']
ProjectStartDate(work_units) == work_units[Len(work_units)].date

----------------------------------------------------------------------------
(* One pass of the page loop, lines 393-447 *)

\* Confluence.update_report_page with its transport: the GET of line 113,
\* the renderer, and the PUT of lines 186-193 when upload is set.  The GET
\* carries no raise_for_status: a response with an error status has no
\* ["body"] and ends in a KeyError (or a JSON error), no response in a
\* ConnectionError.  raise_for_status after the PUT raises HTTPError.
\* A ValueError of the guard is no HTTPError either.
\*   raised: "none", "HTTPError" or "other" (any exception that is no HTTPError)
update_report_page(page, space_name, work_units, budget, upload, force, get, put) ==
  LET r == render(page.body, space_name, work_units, budget, force)
      uploaded == [body |-> r.body, version |-> page.version + 1]
  IN  IF get # "ok" \/ r.raised
      THEN [raised |-> "other", updated |-> FALSE, put |-> "none", page |-> page]
      ELSE IF ~r.changed \/ ~upload
      THEN [raised |-> "none", updated |-> r.changed, put |-> "none", page |-> page]
      ELSE IF put = "ok"
      THEN [raised |-> "none", updated |-> TRUE, put |-> put, page |-> uploaded]
      ELSE IF put = "http_error"
      THEN [raised |-> "HTTPError", updated |-> FALSE, put |-> put, page |-> page]
      ELSE [raised |-> "other", updated |-> FALSE, put |-> put, page |-> page]

\* Line 440: except requests.exceptions.HTTPError
CaughtInLoop(raised) == raised = "HTTPError"

\* The store is written before the e-mail is handed to the transport.
updateWritesFirst(store, dry_run, name, hours, project_start_date, now, smtp) ==
  LET prev   == GetItem(store, name)
      notifs == Evaluate(prev, hours, project_start_date, now)
      mail   == IF notifs = <<>> THEN "none" ELSE send_email(dry_run, smtp)
  IN  [prev |-> prev, start |-> project_start_date, notifs |-> notifs,
       mail |-> mail,
       raised |-> mail = "failed",
       db |-> SetItem(store, name, hours, now)]

\* EMailer.update: the notification, what became of its e-mail, and the
\* store afterwards; an e-mail that fails raises before line 279.
update(store, dry_run, name, hours, project_start_date, now, smtp) ==
  LET prev   == GetItem(store, name)
      notifs == Evaluate(prev, hours, project_start_date, now)
      mail   == IF notifs = <<>> THEN "none" ELSE send_email(dry_run, smtp)
  IN  [prev |-> prev, start |-> project_start_date, notifs |-> notifs,
       mail |-> mail,
       raised |-> mail = "failed",
       db |-> IF mail = "failed" THEN store
              ELSE SetItem(store, name, hours, now)]

\* What the body of the loop does with page k.
LoopBody(k, o) ==
  LET space_name == pages[k]
      project    == FindProject(space_name)
      work_units == time_entries[project]
      hours_spent == work_hours(work_units)
      page  == update_report_page(wiki[k], space_name, work_units,
                                  Budget(Issues[project]), ~args.dry_run,
                                  args.force, o.get, o.put)
      pageAborts == page.raised # "none" /\ ~CaughtInLoop(page.raised)
      mail  == update(db, args.dry_run, Issues[project].subject, hours_spent,
                      ProjectStartDate(work_units), today, o.smtp)
      evaluated == ~pageAborts /\ work_units # <<>>
      skipped == [NoEvent EXCEPT !.step = "notfound", !.page = k,
                                 !.before = wiki[k], !.dbBefore = db,
                                 !.dbStart = ev.dbStart]
  IN  IF IgnoredBySpace(args.space, space_name)
      THEN [wiki |-> wiki, db |-> db, printed |-> printed,
            ev |-> [skipped EXCEPT !.step = "ignored"]]
      ELSE IF ~HasProject(space_name)
      THEN [wiki |-> wiki, db |-> db, printed |-> printed, ev |-> skipped]
      ELSE [wiki |-> [wiki EXCEPT ![k] = page.page],
            db   |-> IF evaluated THEN mail.db ELSE db,
            printed |->
              IF ~evaluated THEN printed
              ELSE [printed EXCEPT ![project] =
                      IF mail.mail = "printed"
                      THEN [notifs |-> mail.notifs, units |-> work_units]
                      ELSE None],
            ev   |-> [step |-> "matched", page |-> k, project |-> project,
                      get |-> o.get, put |-> page.put, updated |-> page.updated,
                      evaluated |-> evaluated, units |-> work_units,
                      hours |-> hours_spent,
                      prev |-> IF evaluated THEN mail.prev ELSE None,
                      start |-> IF evaluated THEN mail.start ELSE 0,
                      notifs |-> IF evaluated THEN mail.notifs ELSE <<>>,
                      mail |-> IF evaluated THEN mail.mail ELSE "none",
                      aborted |-> pageAborts \/ (evaluated /\ mail.raised),
                      before |-> wiki[k], dbBefore |-> db,
                      dbStart |-> ev.dbStart,
                      printed |-> printed[project]]]

----------------------------------------------------------------------------
(* The actions *)

\* The state before a run: the pages have their hand-written text, version 1.
InitWorld(spaces) ==
  /\ pages = spaces
  /\ time_entries = [p \in 1..Len(Issues) |->
                       IF p = 2 THEN SecondIssueEntries ELSE <<>>]
  /\ wiki = [k \in 1..Len(spaces) |-> [body |-> <<[t |-> "txt"]>>, version |-> 1]]
  /\ today = FirstDay
  /\ pc = "idle"
  /\ args = NoArgs
  /\ i = 1
  /\ ev = NoEvent
  /\ printed = [p \in 1..Len(Issues) |-> None]

\* One run over three pages; the store is empty or holds what a run of
\* FirstDay left.
Init ==
  /\ InitWorld(ThreePages)
  /\ rend = NoRender
  /\ runs = 1
  /\ db \in SUBSET { [name |-> Issues[1].subject, hours |-> 90 * Milli,
                        date |-> FirstDay],
                       [name |-> Issues[2].subject, hours |-> 5 * Milli,
                        date |-> FirstDay] }

\* A sequence of runs over the page of one project, from an empty store.
InitRuns ==
  /\ InitWorld(OnePage)
  /\ rend = NoRender
  /\ runs = MaxRuns
  /\ db = {}

\* One run over four pages; the store is empty or holds what a run of
\* FirstDay left.
InitMail ==
  /\ InitWorld(FourPages)
  /\ rend = NoRender
  /\ runs = 1
  /\ db \in SUBSET { [name |-> Issues[1].subject, hours |-> 90 * Milli,
                        date |-> FirstDay],
                       [name |-> Issues[2].subject, hours |-> 5 * Milli,
                        date |-> FirstDay] }

\* The scheduler starts the bot with some options.
StartRun ==
  /\ pc = "idle"
  /\ runs > 0
  /\ \E a \in RunOptions : args' = a
  /\ pc' = "running"
  /\ i' = 1
  /\ runs' = runs - 1
  /\ ev' = [NoEvent EXCEPT !.dbStart = db]
  /\ UNCHANGED <<printed, rend, pages, time_entries, wiki, db, today>>

\* One pass of the loop of line 393; an exception that nothing catches ends
\* the loop.
ProcessPage ==
  /\ pc = "running"
  /\ i <= Len(pages)
  /\ \E o \in Collaborators :
       LET r == LoopBody(i, o)
       IN  /\ wiki' = r.wiki
           /\ db' = r.db
           /\ ev' = r.ev
           /\ printed' = r.printed
           /\ pc' = IF r.ev.aborted THEN "aborted" ELSE "running"
           /\ i' = IF r.ev.aborted THEN i ELSE i + 1
  /\ UNCHANGED <<rend, pages, time_entries, today, args, runs>>

\* Line 448: db.close() after the last page, and the process ends.
EndRun ==
  /\ pc = "running"
  /\ i > Len(pages)
  /\ pc' = "idle"
  /\ args' = NoArgs
  /\ i' = 1
  /\ ev' = NoEvent
  /\ UNCHANGED <<printed, rend, pages, time_entries, wiki, db, today, runs>>

\* The exception that nothing caught ends the process: what was committed
\* stays, db.close() is not reached.
Crash ==
  /\ pc = "aborted"
  /\ pc' = "idle"
  /\ args' = NoArgs
  /\ i' = 1
  /\ ev' = NoEvent
  /\ UNCHANGED <<printed, rend, pages, time_entries, wiki, db, today, runs>>

\* Somebody logs one of the time entries on the first issue; the tracker
\* returns it before or after the others.
LogTime ==
  /\ pc = "idle"
  /\ runs > 0
  /\ \E u \in EntryUnits, front \in BOOLEAN :
       /\ \A k \in 1..Len(time_entries[1]) : time_entries[1][k] # u
       /\ time_entries' =
            [time_entries EXCEPT ![1] = IF front THEN <<u>> \o @ ELSE Append(@, u)]
  /\ UNCHANGED <<printed, rend, pages, wiki, db, today, pc, args, i, runs, ev>>

\* Somebody deletes the time entry the tracker returns first.
CorrectTime ==
  /\ pc = "idle"
  /\ runs > 0
  /\ time_entries[1] # <<>>
  /\ time_entries' = [time_entries EXCEPT ![1] = Tail(@)]
  /\ UNCHANGED <<printed, rend, pages, wiki, db, today, pc, args, i, runs, ev>>

\* Days pass between two runs.
NextDay ==
  /\ pc = "idle"
  /\ runs > 0
  /\ today < LastDay
  /\ \E d \in (today + 1)..LastDay : today' = d
  /\ UNCHANGED <<printed, rend, pages, time_entries, wiki, db, pc, args, i, runs, ev>>

Next ==
  \/ StartRun
  \/ ProcessPage
  \/ EndRun
  \/ Crash
  \/ LogTime
  \/ CorrectTime
  \/ NextDay

\* One run of main() over three pages.
Spec == Init /\ [][Next]_vars

\* Runs of main() for one project.
SpecRuns == InitRuns /\ [][Next]_vars

\* One run of main() over four pages, two of one project.
SpecMail == InitMail /\ [][Next]_vars

----------------------------------------------------------------------------
(* The renderer alone: update_report_page applied to a body, and applied    *)
(* again to the body it returned                                            *)

\* Length of the bodies the renderer is given.
MaxBodyLen == 3

\* Number of work units of the lists whose month table is studied.
MaxUnits == 3

\* The sequences over S of length n at most.
RECURSIVE SeqsUpTo(_, _)
SeqsUpTo(S, n) ==
  IF n = 0 THEN {<<>>}
  ELSE LET shorter == SeqsUpTo(S, n - 1)
       IN  shorter \cup {Append(q, x) : q \in shorter, x \in S}

\* What a body is made of: text, the marker, and sentences "X out of Y hours
\* used" somebody wrote: 2.00 out of 10, 2.012 out of 10, 2.00 out of 10.5,
\* and ". out of 10".
BodyTokens ==
  { [t |-> "txt"], marker,
    [t |-> "used", x |-> 2000, y |-> 10000],
    [t |-> "used", x |-> 2012, y |-> 10000],
    [t |-> "used", x |-> 2000, y |-> 10500],
    [t |-> "used", x |-> NotAFloat, y |-> 10000] }

\* The work units of the month tables: 2 h on 2024-01-05, 3 h on 2024-01-20,
\* 1 h on 2024-02-01, 3.004 h on 2025-01-05 and on 2025-01-06.
TableUnits ==
  { [date |-> 4, hours |-> 2000], [date |-> 19, hours |-> 3000],
    [date |-> 31, hours |-> 1000], [date |-> 370, hours |-> 3004],
    [date |-> 371, hours |-> 3004] }

\* The work units of the calls that are repeated: 2.001 h on 2024-01-05 and
\* 2.003 h on 2024-02-01, two of them at most.  No total lies 0.01 from a
\* number of a body, where the outcome of the comparison of two floats
\* depends on their binary representation.
RenderUnitLists ==
  SeqsUpTo({[date |-> 4, hours |-> 2001], [date |-> 31, hours |-> 2003]}, 2)

\* Budgets: none, 10 h, 10.004 h, 10.5 h and 11.5 h.
Budgets == {0, 10000, 10004, 10500, 11500}

RenderSpace == <<NBIS, "Ö">>

\* The bodies: what somebody wrote, and a page that holds the report of an
\* earlier call.
RenderBodies ==
  SeqsUpTo(BodyTokens, MaxBodyLen)
  \cup {NewBody(<<[t |-> "txt"]>>, RenderSpace, u, b) :
          u \in RenderUnitLists, b \in Budgets}

InitRenderWith(bodies, lists, budgets, forces) ==
  /\ InitWorld(OnePage)
  /\ db = {}
  /\ runs = 0
  /\ rend \in {[stage |-> 0, text |-> b, body |-> b, units |-> u, budget |-> g,
                force |-> f, first |-> NoCall, second |-> NoCall] :
               b \in bodies, u \in lists, g \in budgets, f \in forces}

\* Any body, rendered with a short list of work units.
InitRender == InitRenderWith(RenderBodies, RenderUnitLists, Budgets, BOOLEAN)

\* A hand-written body, rendered with any list of work units.
InitTable ==
  InitRenderWith({<<[t |-> "txt"]>>}, SeqsUpTo(TableUnits, MaxUnits), {10000},
                 {FALSE})

\* update_report_page on the body, then on the body it returned.
Render ==
  /\ rend.stage < 2
  /\ LET res == render(rend.body, RenderSpace, rend.units, rend.budget, rend.force)
     IN  rend' = [rend EXCEPT !.stage = @ + 1,
                              !.body = res.body,
                              !.first = IF rend.stage = 0 THEN res ELSE @,
                              !.second = IF rend.stage = 1 THEN res ELSE @]
  /\ UNCHANGED <<pages, time_entries, wiki, db, today, pc, args, i, runs, ev,
                 printed>>

NextRender == Render

\* The renderer on bodies of all shapes.
SpecRender == InitRender /\ [][NextRender]_vars

\* The renderer on work units of all orders.
SpecTable == InitTable /\ [][NextRender]_vars

----------------------------------------------------------------------------
(* Properties *)

IsHour(n) == n.kind = "hours"
IsDay(n) == n.kind = "days"

CheckpointSet == {CHECKPOINT_HOURS[k] : k \in 1..Len(CHECKPOINT_HOURS)}

Least(S) == CHOOSE x \in S : \A y \in S : x <= y

\* The hour checkpoints between the stored hours and the hours of the last
\* evaluation.
CrossedHours ==
  {c \in CheckpointSet : ev.prev # None /\ ev.prev.hours < c /\ c <= ev.hours}

\* The day checkpoint lies between the stored date and the day of the last
\* evaluation.
CrossedDay ==
  /\ ev.prev # None
  /\ ev.prev.date < ev.start + CHECKPOINT_DAYS
  /\ ev.start + CHECKPOINT_DAYS <= today

HourNotifs == SelectSeq(ev.notifs, IsHour)
DayNotifs == SelectSeq(ev.notifs, IsDay)

\* The rows of the store for the project of the last pass.
RowsOfProject == {row \in db : row.name = Issues[ev.project].subject}

\* How many of the e-mails of the last evaluation are n.
CountOf(n) == Cardinality({k \in 1..Len(ev.notifs) : ev.notifs[k] = n})

\* C1 as stated: every run in which the stored hours are below a checkpoint c
\* and the current hours at or above it produces one notification naming c,
\* and every run on or after start + 365 days whose previous update was
\* before that day produces one 365-day notification: no crossed checkpoint
\* is left without its notification.
C1_OncePerCrossing ==
  (ev.evaluated /\ ev.mail # "failed") =>
    /\ \A c \in CrossedHours : CountOf(HourNotification(c)) = 1
    /\ CrossedDay => CountOf(DayNotification) = 1

\* C1 as amended: a run produces one notification at most; it produces one
\* exactly when a checkpoint is crossed against the stored record, naming
\* the lowest crossed hour checkpoint, or the 365 days when no hour
\* checkpoint is crossed; a checkpoint crossed together with a lower hour
\* checkpoint gets none.  When the run completes, the stored hours are the
\* current ones: against them no hour checkpoint is crossed, so none is
\* notified twice for one crossing.
C1_LowestCrossingOnce ==
  ev.evaluated =>
    /\ Len(ev.notifs) <= 1
    /\ (ev.notifs # <<>>) <=> (CrossedHours # {} \/ CrossedDay)
    /\ CrossedHours # {} =>
         ev.notifs = <<HourNotification(Least(CrossedHours))>>
    /\ (CrossedHours = {} /\ CrossedDay) => ev.notifs = <<DayNotification>>
    /\ ev.mail # "failed" =>
         \A row \in RowsOfProject :
           \A c \in CheckpointSet : ~(row.hours < c /\ c <= ev.hours)

\* 100 hours, 300 hours and 365 days are crossed in one run: the e-mail
\* names 100 hours, and it is sent.
C1_AllCrossedWitness ==
  /\ ev.evaluated
  /\ Cardinality(CrossedHours) = 2
  /\ CrossedDay
  /\ ev.notifs = <<HourNotification(100 * Milli)>>
  /\ ev.mail = "sent"

\* C2 as stated: without force, for every body, every list of work units and
\* every budget >= 0, also one with a fractional part, the second of two
\* calls reports changed = false and returns the body of the first.
C2_RenderIdempotent ==
  (rend.stage = 2 /\ ~rend.force /\ rend.budget >= 0) =>
    /\ ~rend.second.changed
    /\ rend.second.body = rend.first.body

\* C3: in one evaluation an hour notification is emitted exactly when a
\* previous-hours value exists and some checkpoint c has previous_hours < c
\* <= current_hours; it names the lowest such c; there is one at most, also
\* when both checkpoints are crossed; without a record there is none.
C3_HourCheckpointRule ==
  ev.evaluated =>
    /\ Len(HourNotifs) <= 1
    /\ (HourNotifs # <<>>) <=> (CrossedHours # {})
    /\ HourNotifs # <<>> => HourNotifs[1].checkpoint = Least(CrossedHours)
    /\ ev.prev = None => HourNotifs = <<>>

\* Both checkpoints are crossed in one run, and 100 is the one notified.
C3_BothCrossedWitness ==
  /\ ev.evaluated
  /\ Cardinality(CrossedHours) = 2
  /\ ev.notifs = <<HourNotification(100 * Milli)>>

\* C4: in one evaluation the 365-day notification is emitted exactly when no
\* hour notification fired, a previous-update date exists and
\* previous_update_date < project_start_date + 365 days <= today; so it is
\* for previous = start + 364, today = start + 366 and is not for previous =
\* start + 366, today = start + 367; one evaluation emits one notification
\* at most.
C4_DayCheckpointRule ==
  ev.evaluated =>
    /\ (DayNotifs # <<>>) <=> (HourNotifs = <<>> /\ CrossedDay)
    /\ Len(ev.notifs) <= 1
    /\ ( /\ ev.prev # None /\ HourNotifs = <<>>
         /\ ev.prev.date = ev.start + 364 /\ today = ev.start + 366 )
       => ev.notifs = <<DayNotification>>
    /\ ( /\ ev.prev # None
         /\ ev.prev.date = ev.start + 366 /\ today = ev.start + 367 )
       => DayNotifs = <<>>

\* The previous update was 364 days after the start, today is 366 days after
\* it, and the 365-day notification is emitted.
C4_Day364To366Witness ==
  /\ ev.evaluated
  /\ ev.prev # None
  /\ ev.prev.date = ev.start + 364
  /\ today = ev.start + 366
  /\ ev.notifs = <<DayNotification>>

\* C5: after every evaluation that completes (no mail failure) the store
\* holds exactly one record of the project's name, with the current total
\* hours and the date of this run: with or without a notification, with
\* changed or unchanged or lower hours, with or without a failed page update.
C5_StatePersisted ==
  (ev.evaluated /\ ev.mail # "failed") =>
    RowsOfProject = {[name |-> Issues[ev.project].subject, hours |-> ev.hours,
                      date |-> today]}

\* The page update failed, no notification fired, the hours are lower than
\* the stored ones, the stored date was an earlier day: the record is written.
C5_LowerHoursFailedUploadWitness ==
  /\ ev.evaluated
  /\ ev.put = "http_error"
  /\ ev.notifs = <<>>
  /\ ev.prev # None
  /\ ev.hours < ev.prev.hours
  /\ ev.prev.date < today
  /\ RowsOfProject = {[name |-> Issues[ev.project].subject, hours |-> ev.hours,
                       date |-> today]}

\* C6: in a dry run no body is pushed to the wiki (no PUT, the page keeps
\* its version and body) and no e-mail is handed to the mail transport: a
\* detected crossing is printed.
C6_DryRunSuppresses ==
  (pc # "idle" /\ ev.step # "none" /\ args.dry_run) =>
    /\ ev.put = "none"
    /\ wiki[ev.page] = ev.before
    /\ ev.mail \in {"none", "printed"}
    /\ ev.notifs # <<>> => ev.mail = "printed"

\* A dry run regenerates a report and detects a crossing: nothing is
\* uploaded, the e-mail is printed.
C6_DryRunCrossingWitness ==
  /\ args.dry_run
  /\ ev.updated
  /\ ev.notifs # <<>>
  /\ ev.mail = "printed"
  /\ wiki[ev.page] = ev.before

\* The rows of the month table of a body.
TableRows(body) == body[FindFrom(body, "table", 1)].rows

MonthsOf(units) == {YearMonth(units[k].date) : k \in 1..Len(units)}

RECURSIVE HoursOfMonth(_, _)
HoursOfMonth(units, ym) ==
  IF units = <<>> THEN 0
  ELSE (IF YearMonth(units[1].date) = ym THEN units[1].hours ELSE 0)
       + HoursOfMonth(Tail(units), ym)

LaterMonth(a, b) == a[1] > b[1] \/ (a[1] = b[1] /\ a[2] > b[2])

\* C7: for work units in any order the table has exactly one row per
\* (year, month) of the work units, the most recent month first, and the
\* hours of a row are the sum of the hours of the work units of its month.
C7_MonthlyAggregation ==
  rend.stage >= 1 =>
    LET rows == TableRows(rend.first.body)
    IN  /\ rend.first.changed
        /\ Len(rows) = Cardinality(MonthsOf(rend.units))
        /\ {rows[k].ym : k \in 1..Len(rows)} = MonthsOf(rend.units)
        /\ \A k \in 1..(Len(rows) - 1) : LaterMonth(rows[k].ym, rows[k + 1].ym)
        /\ \A k \in 1..Len(rows) :
             rows[k].hours = FormatHours(HoursOfMonth(rend.units, rows[k].ym))

\* 2 h on 2024-01-05, 1 h on 2024-02-01, 3 h on 2024-01-20, in this order:
\* two rows, February 1.00 before January 5.00.
C7_ExampleWitness ==
  /\ rend.stage >= 1
  /\ rend.units = << [date |-> 4, hours |-> 2000], [date |-> 31, hours |-> 1000],
                     [date |-> 19, hours |-> 3000] >>
  /\ TableRows(rend.first.body) =
       << [ym |-> <<2024, 2>>, hours |-> 1000], [ym |-> <<2024, 1>>, hours |-> 5000] >>

\* C8 as stated: the evaluation gets the earliest date of the project's work
\* units as project_start_date, whatever the order of the time entries.
C8_StartIsEarliest ==
  ev.evaluated =>
    ev.start = Least({ev.units[k].date : k \in 1..Len(ev.units)})

\* The space name of the last pass, normalized.
EvSpaceNorm == normalize_project_id(pages[ev.page])

\* "NBIS " followed by a project key.
IsPrefixedKey(name) ==
  Len(name) > 0 /\ name[1] = NBIS /\ Tail(name) \in ProjectKeys

\* C9 as stated: a page (that --space does not leave out) is matched exactly
\* when its normalized space name is a project key or "NBIS " followed by a
\* project key; the project of the full name goes before the project of the
\* stripped name; every other page is skipped and neither the wiki nor the
\* mailer nor the store is touched.
C9_MatchRule ==
  (pc # "idle" /\ ev.step # "none") =>
    /\ ~IgnoredBySpace(args.space, pages[ev.page]) =>
         ( ev.step = "matched"
           <=> (EvSpaceNorm \in ProjectKeys \/ IsPrefixedKey(EvSpaceNorm)) )
    /\ (ev.step = "matched" /\ EvSpaceNorm \in ProjectKeys) =>
         ev.project = ProjectOf(EvSpaceNorm)
    /\ ev.step # "matched" =>
         /\ wiki[ev.page] = ev.before
         /\ db = ev.dbBefore
         /\ ev.get = "none" /\ ev.put = "none" /\ ev.mail = "none"

\* C10 as stated: a transport failure of one page update, on the GET or on
\* the PUT, an error status or a connection error, does not abort the run:
\* the evaluation and the state update of the project happen and the loop
\* goes on with the next page.
C10_PageFailureCaught ==
  (ev.step = "matched" /\ (ev.get # "ok" \/ ev.put \in {"http_error", "conn_error"})) =>
    /\ ev.units # <<>> => ev.evaluated
    /\ pc = "aborted" => ev.mail = "failed"
    /\ ev.mail # "failed" => (pc = "running" /\ i = ev.page + 1)

\* The rows that a store holds for a project name.
RowsOf(store, name) == {row \in store : row.name = name}

\* The pages before page k whose project is evaluated in a run that reaches
\* page k: not left out by --space, with a project that has time entries.
EvaluatedBefore(k) ==
  {j \in 1..(k - 1) :
     /\ ~IgnoredBySpace(args.space, pages[j])
     /\ HasProject(pages[j])
     /\ time_entries[FindProject(pages[j])] # <<>>}

\* The e-mail of the last pass failed: the loop stands at that page, the
\* record of its project is the one the run started with, and the projects of
\* the earlier pages have the record that their evaluation wrote.
MailFailureLeavesStore ==
  ev.mail = "failed" =>
    /\ ~args.dry_run
    /\ pc = "aborted"
    /\ i = ev.page
    /\ db = ev.dbBefore
    /\ RowsOfProject = RowsOf(ev.dbStart, Issues[ev.project].subject)
    /\ \A j \in EvaluatedBefore(ev.page) :
         LET project == FindProject(pages[j])
         IN  RowsOf(db, Issues[project].subject) =
               {[name |-> Issues[project].subject,
                 hours |-> work_hours(time_entries[project]),
                 date |-> today]}

\* The run that an e-mail failure aborted ends without processing a page and
\* without touching the store or the wiki.
MailFailureEndsRun ==
  (pc = "aborted" /\ ev.mail = "failed") =>
    /\ pc' = "idle"
    /\ db' = db
    /\ wiki' = wiki

\* C11: when the e-mail of a notification fails in a run that is no dry run,
\* the run aborts at that project: the record of the project in the store is
\* the one from before the run, no later page is processed, and the records
\* written for the projects processed earlier in the run stay committed.
C11_MailFailureIsFatal ==
  /\ []MailFailureLeavesStore
  /\ [][MailFailureEndsRun]_vars

\* The e-mail of the first issue's project fails at the second of four
\* pages, after the record of the first page's project was written in this
\* run; the crossing is still to be notified.
C11_MailFailsAtSecondPageWitness ==
  /\ ev.mail = "failed"
  /\ pc = "aborted"
  /\ ev.page = 2
  /\ ev.project = 1
  /\ Len(pages) = 4
  /\ HourNotifs # <<>>
  /\ RowsOfProject = {[name |-> Issues[1].subject, hours |-> 90 * Milli,
                       date |-> FirstDay]}
  /\ today > FirstDay
  /\ RowsOf(ev.dbStart, Issues[2].subject) # RowsOf(db, Issues[2].subject)
  /\ RowsOf(db, Issues[2].subject) =
       {[name |-> Issues[2].subject, hours |-> 5 * Milli, date |-> today]}

\* C12: the store is written in a dry run too: a dry run leaves, for every
\* matched project with work units, a record with the current hours and the
\* date of the run; and the e-mails that a dry run printed for a project are
\* not sent by the next run without --dry-run that finds the same work units.
C12_DryRunConsumesCrossing ==
  (ev.step = "matched" /\ ev.units # <<>>) =>
    /\ args.dry_run =>
         RowsOfProject = {[name |-> Issues[ev.project].subject,
                           hours |-> ev.hours, date |-> today]}
    /\ (~args.dry_run /\ ev.printed # None /\ ev.printed.units = ev.units) =>
         \A k \in 1..Len(ev.printed.notifs) : CountOf(ev.printed.notifs[k]) = 0

\* The pattern that the guard reads in a body: the first "X out of Y hours
\* used" at or after the first marker; 0 when there is none.
PatternOf(text) ==
  IF FindMarker(text) > 0 THEN SearchUsed(text, FindMarker(text)) ELSE 0

\* The total and the budget lie within the tolerance of the numbers of the
\* pattern.
TotalsAgree(text, units, budget) ==
  /\ PatternOf(text) > 0
  /\ Abs(work_hours(units) - text[PatternOf(text)].x) < Tolerance
  /\ Abs(text[PatternOf(text)].y - budget) < Tolerance

\* C13: the guard compares totals only.  A call without force on a body
\* whose report holds "X out of Y hours used" with the total hours and the
\* budget within 0.01 of X and Y returns changed = false and the body as it
\* was, whatever the months of the work units; every other call without
\* force on a body with the marker regenerates the report and returns
\* changed = true.
C13_GuardComparesTotalsOnly ==
  (rend.stage >= 1 /\ ~rend.force /\ FindMarker(rend.text) > 0) =>
    IF TotalsAgree(rend.text, rend.units, rend.budget)
    THEN /\ ~rend.first.raised
         /\ ~rend.first.changed
         /\ rend.first.body = rend.text
    ELSE /\ ~rend.first.raised
         /\ rend.first.changed
         /\ rend.first.body =
              NewBody(rend.text, RenderSpace, rend.units, rend.budget)

=============================================================================
